---- MODULE Spec2Model ----
(***************************************************************************)
(* Model of the Vocabulary Builder (vocab-app/script.js): CSV parsing,     *)
(* distractor generation, the flash-card session with its requeue-on-wrong *)
(* queue, and progress accumulation in localStorage.                       *)
(*                                                                         *)
(* Strings are sequences of one-character strings, so that toLowerCase,    *)
(* trim and split are computed and not assumed.                            *)
(***************************************************************************)
EXTENDS Integers, Sequences, FiniteSets, TLC

VARIABLES
    gPool,        \* generateOptions: the allEntries argument
    gIdx,         \* generateOptions: position in gPool of the entry argument
    gOptions,     \* generateOptions: the returned array
    gPc,          \* "call" before the call, "done" after it
    localStorage, \* the keys 'username', 'words' and 'progress'
    phase,        \* flashcards page: "loading", "noWords", "presented",
                  \* "answered", "complete", "closed"
    username,     \* initFlashcards: const username
    allWords,     \* initFlashcards: const allWords
    sessionSize,  \* initFlashcards: session.length
    queue,        \* initFlashcards: const queue
    results,      \* initFlashcards: const results
    currentCard,  \* initFlashcards: let currentCard
    callUser,     \* updateProgress: the username argument of the last call
    callResults,  \* updateProgress: the results argument of the last call
    callRaised,   \* updateProgress: whether the last call threw
    calls,        \* number of updateProgress calls made
    rFirst,       \* results of a first session
    rSecond,      \* results of a second session
    lsStart,      \* localStorage before the first of the calls compared
    lsConcat,     \* localStorage of the run that makes one call with both
    accAttempts,  \* renderDashboard: totalAttempts
    accCorrect,   \* renderDashboard: totalCorrect
    accuracy,     \* renderDashboard: const accuracy
    accPc,        \* "render" before the percentage is computed, "done" after
    adminVisible, \* initAdmin: adminSection is displayed
    pendingReads, \* initAdmin: texts of the FileReaders whose onload is due
    lastRead,     \* initAdmin: e.target.result of the last onload
    uploads,      \* number of clicks on uploadBtn
    loadPc,       \* loadWords: "call", "fetching", "returned", "threw", "started"
    fetchCalls,   \* loadWords: number of fetch('data/default_words.csv') calls
    fetchOutcome, \* loadWords: how the fetch settled
    loaded,       \* loadWords: the value the promise resolved to: null or
                  \* the array val
    csvText,      \* parseCSV: the text argument
    csvLines,     \* parseCSV: the lines the for loop has not reached yet
    csvLine,      \* parseCSV: the line of the last iteration
    csvParts,     \* parseCSV: const parts of the last iteration
    csvWords,     \* parseCSV: const words
    csvPc,        \* parseCSV: "call", "loop", "done"
    entryRefs,    \* initFlashcards: const entries, as positions of allWords
    shuffleI,     \* shuffleArray(entries): the loop variable i, 1-based
    tabPc,        \* per tab: "read", "write", "done" within updateProgress
    tabRead,      \* per tab: const existing
    tabUser,      \* per tab: the username argument
    tabResults,   \* per tab: the results argument
    tabLog        \* the reads and writes of the tabs in the order they happened

genVars == <<gPool, gIdx, gOptions, gPc>>

pageVars == <<phase, username, allWords, sessionSize, queue, results, currentCard>>

accVars == <<accAttempts, accCorrect, accuracy, accPc>>

adminVars == <<adminVisible, pendingReads, lastRead, uploads>>

callVars == <<callUser, callResults, callRaised, calls, rFirst, rSecond, lsStart, lsConcat>>

loadVars == <<loadPc, fetchCalls, fetchOutcome, loaded>>

parseVars == <<csvText, csvLines, csvLine, csvParts, csvWords, csvPc>>

buildVars == <<entryRefs, shuffleI>>

tabVars == <<tabPc, tabRead, tabUser, tabResults, tabLog>>

vars == <<gPool, gIdx, gOptions, gPc, localStorage,
          phase, username, allWords, sessionSize, queue, results, currentCard,
          callUser, callResults, callRaised, calls, rFirst, rSecond, lsStart, lsConcat,
          accAttempts, accCorrect, accuracy, accPc,
          adminVisible, pendingReads, lastRead, uploads,
          loadPc, fetchCalls, fetchOutcome, loaded,
          csvText, csvLines, csvLine, csvParts, csvWords, csvPc,
          entryRefs, shuffleI,
          tabPc, tabRead, tabUser, tabResults, tabLog>>

----------------------------------------------------------------------------
(* Bounds *)

MaxPool == 3

\* cap on the number of answers given in one session
MaxAnswers == 3

\* longest results array of each of the two calls compared with one call
MaxResults == 2

\* longest results array of a call in a sequence of calls
MaxCallResults == 1

\* cap on the number of updateProgress calls in a row
MaxCalls == 2

\* largest attempts total a percentage is computed of
MaxAttempts == 40

\* cap on the number of uploads
MaxUploads == 2

----------------------------------------------------------------------------
(* Values of the variables a specification does not use *)

NoCard == [tag |-> "null"]

GenUnused == gPool = <<>> /\ gIdx = 0 /\ gOptions = <<>> /\ gPc = "unused"

PageUnloaded ==
    /\ phase = "closed"
    /\ username = <<>>
    /\ allWords = <<>>
    /\ sessionSize = 0
    /\ queue = <<>>
    /\ results = <<>>
    /\ currentCard = NoCard

EmptyStorage == [username |-> [tag |-> "null"], words |-> [tag |-> "null"],
                 progress |-> [tag |-> "null"]]

AccUnused == accAttempts = 0 /\ accCorrect = 0 /\ accuracy = 0 /\ accPc = "unused"

AdminUnused ==
    adminVisible = FALSE /\ pendingReads = <<>> /\ lastRead = <<>> /\ uploads = 0

LoadUnused ==
    /\ loadPc = "unused"
    /\ fetchCalls = 0
    /\ fetchOutcome = [tag |-> "null"]
    /\ loaded = [isNull |-> FALSE, val |-> <<>>]

ParseUnused ==
    /\ csvText = <<>>
    /\ csvLines = <<>>
    /\ csvLine = <<>>
    /\ csvParts = <<>>
    /\ csvWords = <<>>
    /\ csvPc = "unused"

BuildUnused == entryRefs = <<>> /\ shuffleI = 0

TabsUnused ==
    /\ tabPc = <<>>
    /\ tabRead = <<>>
    /\ tabUser = <<>>
    /\ tabResults = <<>>
    /\ tabLog = <<>>

CallsUnused ==
    /\ callUser = <<>>
    /\ callResults = <<>>
    /\ callRaised = FALSE
    /\ calls = 0
    /\ rFirst = <<>>
    /\ rSecond = <<>>
    /\ lsStart = EmptyStorage
    /\ lsConcat = EmptyStorage

----------------------------------------------------------------------------
(* Strings *)

\* String.prototype.toLowerCase on one character
LowerChar(ch) ==
    CASE ch = "A" -> "a"
      [] ch = "B" -> "b"
      [] ch = "C" -> "c"
      [] ch = "D" -> "d"
      [] ch = "X" -> "x"
      [] OTHER -> ch

\* String.prototype.toLowerCase
ToLowerCase(s) == [i \in 1..Len(s) |-> LowerChar(s[i])]

\* a.toLowerCase() === b.toLowerCase()
EqIgnoreCase(a, b) == ToLowerCase(a) = ToLowerCase(b)

RECURSIVE IndexOfFrom(_, _, _)
\* first position >= i of character ch in s, or 0
IndexOfFrom(s, ch, i) ==
    IF i > Len(s) THEN 0
    ELSE IF s[i] = ch THEN i
    ELSE IndexOfFrom(s, ch, i + 1)

\* meaning.split(' ')[0]: the text before the first space
FirstToken(s) ==
    LET p == IndexOfFrom(s, " ", 1)
    IN  IF p = 0 THEN s ELSE SubSeq(s, 1, p - 1)

\* characters String.prototype.trim removes
WhiteSpace == {" ", "\n", "\r", "\t"}

RECURSIVE TrimStart(_)
TrimStart(s) ==
    IF s # <<>> /\ Head(s) \in WhiteSpace THEN TrimStart(Tail(s)) ELSE s

RECURSIVE TrimEnd(_)
TrimEnd(s) ==
    IF s # <<>> /\ s[Len(s)] \in WhiteSpace THEN TrimEnd(SubSeq(s, 1, Len(s) - 1)) ELSE s

\* String.prototype.trim
Trim(s) == TrimEnd(TrimStart(s))

RECURSIVE SplitAt(_, _, _, _)
\* String.prototype.split where seps is the set of positions of s that the
\* (one-character) separator matches; cur is the piece being read
SplitAt(s, seps, i, cur) ==
    IF i > Len(s) THEN <<cur>>
    ELSE IF i \in seps THEN <<cur>> \o SplitAt(s, seps, i + 1, <<>>)
    ELSE SplitAt(s, seps, i + 1, Append(cur, s[i]))

----------------------------------------------------------------------------
(* parseCSV *)

\* text.split(/\r?\n/): cut at every "\n"; a "\r" right before it belongs to
\* the separator
SplitLines(text) ==
    LET nl == {i \in 1..Len(text) : text[i] = "\n"}
        cr == {i \in 1..Len(text) : text[i] = "\r" /\ (i + 1) \in nl}
        kept == SelectSeq([i \in 1..Len(text) |-> i], LAMBDA i : i \notin cr)
        t == [k \in 1..Len(kept) |-> text[kept[k]]]
    IN  SplitAt(t, {k \in 1..Len(kept) : kept[k] \in nl}, 1, <<>>)

\* /,(?![^\"]*\")/: a comma that no double quote follows anywhere later in
\* the line
IsFieldSeparator(line, i) ==
    /\ line[i] = ","
    /\ ~\E j \in (i + 1)..Len(line) : line[j] = "\""

\* line.split(/,(?![^\"]*\")/g)
SplitFields(line) ==
    SplitAt(line, {i \in 1..Len(line) : IsFieldSeparator(line, i)}, 1, <<>>)

\* synStr.split(/;|\|/).map((s) => s.trim()).filter(Boolean)
SplitList(str) ==
    LET pieces == SplitAt(str, {i \in 1..Len(str) : str[i] \in {";", "|"}}, 1, <<>>)
        trimmed == [k \in 1..Len(pieces) |-> Trim(pieces[k])]
    IN  SelectSeq(trimmed, LAMBDA p : p # <<>>)

\* the object pushed for one line with at least 5 parts
ParseLine(parts) ==
    [word |-> Trim(parts[1]), meaning |-> Trim(parts[2]),
     synonyms |-> SplitList(parts[3]), antonyms |-> SplitList(parts[4]),
     example |-> Trim(parts[5])]

RECURSIVE ParseLines(_)
\* for (const line of lines) { if (!line) continue; ...
\*   if (parts.length < 5) continue; words.push(...) }
ParseLines(lines) ==
    IF lines = <<>> THEN <<>>
    ELSE LET line == Head(lines)
             parts == SplitFields(line)
         IN  IF line = <<>> \/ Len(parts) < 5 THEN ParseLines(Tail(lines))
             ELSE <<ParseLine(parts)>> \o ParseLines(Tail(lines))

\* lines = text.trim().split(/\r?\n/); lines.shift(); ...
parseCSV(text) == ParseLines(Tail(SplitLines(Trim(text))))

----------------------------------------------------------------------------
(* shuffleArray *)

\* the swap that forgets to store array[i] at j
Swap_CopyOnly(arr, i, j) == [arr EXCEPT ![i] = arr[j]]

\* [array[i], array[j]] = [array[j], array[i]]
Swap(arr, i, j) == [arr EXCEPT ![i] = arr[j], ![j] = arr[i]]

RECURSIVE ShuffleFrom(_, _)
\* the loop of shuffleArray from (1-based) position i down to 2; the set of
\* arrays Math.random can produce
ShuffleFrom(arr, i) ==
    IF i <= 1 THEN {arr}
    ELSE UNION {ShuffleFrom(Swap(arr, i, j), i - 1) : j \in 1..i}

shuffleArray(arr) == ShuffleFrom(arr, Len(arr))

----------------------------------------------------------------------------
(* generateOptions *)

\* const correct = entry.synonyms[0] || entry.meaning.split(' ')[0] || entry.word
CorrectOf(entry) ==
    IF Len(entry.synonyms) > 0 /\ entry.synonyms[1] # <<>> THEN entry.synonyms[1]
    ELSE IF FirstToken(entry.meaning) # <<>> THEN FirstToken(entry.meaning)
    ELSE entry.word

RECURSIVE CollectCandidates(_, _, _)
\* for (const other of allEntries) { if (other.word === entry.word) continue;
\*   candidates.push(...other.synonyms) }
CollectCandidates(entry, allEntries, i) ==
    IF i > Len(allEntries) THEN <<>>
    ELSE (IF allEntries[i].word = entry.word THEN <<>> ELSE allEntries[i].synonyms)
         \o CollectCandidates(entry, allEntries, i + 1)

RECURSIVE SetOrder(_, _)
\* Array.from(new Set(arr)): first occurrences, in insertion order; Set
\* membership is exact (case-sensitive) string equality.  acc is the result
\* so far.
SetOrder(arr, acc) ==
    IF arr = <<>> THEN acc
    ELSE IF \E k \in 1..Len(acc) : acc[k] = Head(arr)
         THEN SetOrder(Tail(arr), acc)
         ELSE SetOrder(Tail(arr), Append(acc, Head(arr)))

\* candidates.filter((c) => c && c.toLowerCase() !== correct.toLowerCase())
KeepCandidate(correct, c) == c # <<>> /\ ~EqIgnoreCase(c, correct)

CandidateArray(entry, allEntries) ==
    LET correct == CorrectOf(entry)
        Keep(c) == KeepCandidate(correct, c)
    IN  SetOrder(SelectSeq(CollectCandidates(entry, allEntries, 1), Keep), <<>>)

\* entry.synonyms.some((s) => s.toLowerCase() === cand.toLowerCase())
IsOwnSynonym(entry, cand) ==
    \E k \in 1..Len(entry.synonyms) : EqIgnoreCase(entry.synonyms[k], cand)

RECURSIVE PickDistractors(_, _, _)
\* for (const cand of candidateArray) { if (distractors.length >= 3) break; ... }
PickDistractors(entry, cands, distractors) ==
    IF cands = <<>> \/ Len(distractors) >= 3 THEN distractors
    ELSE IF ~IsOwnSynonym(entry, Head(cands))
         THEN PickDistractors(entry, Tail(cands), Append(distractors, Head(cands)))
         ELSE PickDistractors(entry, Tail(cands), distractors)

\* otherWord.word !== entry.word && otherWord.word.toLowerCase() !== correct.toLowerCase()
FallbackAccepts(entry, otherWord) ==
    /\ otherWord.word # entry.word
    /\ ~EqIgnoreCase(otherWord.word, CorrectOf(entry))

RECURSIVE FallbackWords(_, _, _, _)
\* while (distractors.length < 3 && i < allEntries.length) { ... i++ }
FallbackWords(entry, allEntries, distractors, i) ==
    IF Len(distractors) >= 3 \/ i > Len(allEntries) THEN distractors
    ELSE IF FallbackAccepts(entry, allEntries[i])
         THEN FallbackWords(entry, allEntries, Append(distractors, allEntries[i].word), i + 1)
         ELSE FallbackWords(entry, allEntries, distractors, i + 1)

RECURSIVE PadDistractors(_)
\* while (distractors.length < 3) distractors.push('')
PadDistractors(distractors) ==
    IF Len(distractors) >= 3 THEN distractors
    ELSE PadDistractors(Append(distractors, <<>>))

\* the arrays generateOptions(entry, allEntries) can return
generateOptions(entry, allEntries) ==
    UNION { LET d1 == PickDistractors(entry, shuffled, <<>>)
                d2 == FallbackWords(entry, allEntries, d1, 1)
                d3 == PadDistractors(d2)
            IN  shuffleArray(<<CorrectOf(entry)>> \o SubSeq(d3, 1, 3))
          : shuffled \in shuffleArray(CandidateArray(entry, allEntries)) }

----------------------------------------------------------------------------
(* localStorage values.  getItem returns null for a missing key and the    *)
(* stored string otherwise.  A stored string is a plain string (username), *)
(* the text JSON.stringify made of a value, or text JSON.parse rejects.    *)
(* JSON.stringify keeps every string, number, array and plain object the   *)
(* program stores, so the text is represented by the value it encodes.     *)

Null == [tag |-> "null"]

Corrupt == [tag |-> "corrupt"]

PlainString(s) == [tag |-> "string", val |-> s]

JSONstringify(v) == [tag |-> "json", val |-> v]

\* the text "null", which JSON.parse turns into the value null
NullText == [tag |-> "jsonnull"]

\* JSON.parse(item) returns normally
JSONparses(item) == item.tag \in {"json", "jsonnull"}

\* the value JSON.parse(item) returns
JSONparse(item) == IF item.tag = "jsonnull" THEN [tag |-> "null"] ELSE item.val

\* {} : the object without keys
EmptyObject == [k \in {} |-> 0]

\* obj[key] = val
Put(obj, key, val) ==
    [k \in (DOMAIN obj) \cup {key} |-> IF k = key THEN val ELSE obj[k]]

----------------------------------------------------------------------------
(* updateProgress *)

\* the body of forEach with attempts counted for wrong results only
RecordResult_SkipAttempt(progress, user, res) ==
    LET words == progress[user]
        old == IF res.word \in DOMAIN words THEN words[res.word]
               ELSE [attempts |-> 0, correct |-> 0]
        new == [attempts |-> IF res.correct THEN old.attempts ELSE old.attempts + 1,
                correct  |-> IF res.correct THEN old.correct + 1 ELSE old.correct]
    IN  Put(progress, user, Put(words, res.word, new))

\* the body of results.forEach((res) => { ... })
RecordResult(progress, user, res) ==
    LET words == progress[user]
        old == IF res.word \in DOMAIN words THEN words[res.word]
               ELSE [attempts |-> 0, correct |-> 0]
        new == [attempts |-> old.attempts + 1,
                correct  |-> IF res.correct THEN old.correct + 1 ELSE old.correct]
    IN  Put(progress, user, Put(words, res.word, new))

RECURSIVE RecordResults(_, _, _)
RecordResults(progress, user, res) ==
    IF res = <<>> THEN progress
    ELSE RecordResults(RecordResult(progress, user, Head(res)), user, Tail(res))

\* let progress = {}; if (existing) { try { progress = JSON.parse(existing) } catch ... }
LoadProgress(existing) ==
    IF existing # Null /\ JSONparses(existing) THEN JSONparse(existing) ELSE EmptyObject

\* progress[username] = {} without the test
EnsureUser_Reset(progress, user) == Put(progress, user, EmptyObject)

\* if (!progress[username]) progress[username] = {}
EnsureUser(progress, user) ==
    IF user \in DOMAIN progress THEN progress ELSE Put(progress, user, EmptyObject)

\* updateProgress without the try/catch around JSON.parse
updateProgressThrows_NoCatch(store, user) ==
    /\ user # <<>>
    /\ store.progress # Null
    /\ (~JSONparses(store.progress) \/ store.progress = NullText)

\* updateProgress(user, ...) throws: the SyntaxError of JSON.parse is caught
\* (lines 162-166); reading progress[username] of the parsed value null
\* (line 168) is a TypeError nothing catches
updateProgressThrows(store, user) ==
    /\ user # <<>>
    /\ store.progress # Null
    /\ JSONparses(store.progress)
    /\ store.progress = NullText

\* the value of localStorage after an updateProgress(user, res) that returns
updateProgress(store, user, res) ==
    IF user = <<>> THEN store
    ELSE LET progress == EnsureUser(LoadProgress(store.progress), user)
         IN  [store EXCEPT !.progress = JSONstringify(RecordResults(progress, user, res))]

----------------------------------------------------------------------------
(* loadWords *)

\* fetched is what fetch('data/default_words.csv') and response.text() give:
\* [ok |-> FALSE] when either rejects, [ok |-> TRUE, text |-> ...] otherwise
loadWords(store, fetched) ==
    IF store.words # Null /\ JSONparses(store.words) THEN JSONparse(store.words)
    ELSE IF fetched.ok THEN parseCSV(fetched.text)
    ELSE <<>>

----------------------------------------------------------------------------
(* Word entries as parseCSV produces them: word, meaning and example are   *)
(* trimmed, synonyms and antonyms are trimmed and non-empty.               *)

Entry(w, m, syn) ==
    [word |-> w, meaning |-> m, synonyms |-> syn, antonyms |-> <<>>, example |-> <<>>]

EntryChoices ==
    { Entry(<<"a">>, <<"c", " ", "d">>, <<<<"b">>, <<"c">>>>),
      Entry(<<"b">>, <<"d">>,           <<<<"a">>, <<"A">>>>),
      Entry(<<"c">>, <<"d", " ", "a">>, <<>>),
      Entry(<<"A">>, <<>>,              <<<<"d">>, <<"B">>>>),
      Entry(<<"d">>, <<>>,              <<>>),
      Entry(<<>>,    <<>>,              <<>>) }

PoolsOfLen(n) == [1..n -> EntryChoices]

GenPools == UNION {PoolsOfLen(n) : n \in 1..MaxPool}

----------------------------------------------------------------------------
(* Specification of one generateOptions call *)

GenInit ==
    /\ gPool \in GenPools
    /\ gIdx \in 1..Len(gPool)
    /\ gOptions = <<>>
    /\ gPc = "call"
    /\ localStorage = EmptyStorage
    /\ PageUnloaded
    /\ CallsUnused
    /\ AdminUnused
    /\ AccUnused
    /\ AdminUnused
    /\ LoadUnused
    /\ ParseUnused
    /\ BuildUnused
    /\ TabsUnused

GenerateOptionsCall ==
    /\ gPc = "call"
    /\ gOptions' \in generateOptions(gPool[gIdx], gPool)
    /\ gPc' = "done"
    /\ UNCHANGED <<gPool, gIdx, localStorage, pageVars, callVars, accVars, adminVars,
                   loadVars, parseVars, buildVars, tabVars>>

GenNext == GenerateOptionsCall

SpecGen == GenInit /\ [][GenNext]_vars

\* number of options equal to s case-insensitively
CountMatches(options, s) ==
    Cardinality({k \in 1..Len(options) : EqIgnoreCase(options[k], s)})

\* C1: generateOptions(e, p) returns exactly 4 options, exactly one of which
\* equals e's correct answer case-insensitively
C1_FourOptionsOneCorrect ==
    gPc = "done" =>
        /\ Len(gOptions) = 4
        /\ CountMatches(gOptions, CorrectOf(gPool[gIdx])) = 1

----------------------------------------------------------------------------
(* CSV texts of the sessions: a header line and one or two data lines *)

HeaderLine == <<"h">>

\* a,m,x,,      a word with one synonym
LineSyn == <<"a", ",", "m", ",", "x", ",", ",">>

\* b,c d,,,     a word with a meaning and no synonyms
LineNoSyn == <<"b", ",", "c", " ", "d", ",", ",", ",">>

\* A,,X;a,,     a word that differs from LineSyn's in case only, two synonyms
LineCase == <<"A", ",", ",", "X", ";", "a", ",", ",">>

SessionLines == {LineSyn, LineNoSyn, LineCase}

RECURSIVE JoinLines(_)
JoinLines(lines) ==
    IF Len(lines) = 1 THEN lines[1]
    ELSE lines[1] \o <<"\n">> \o JoinLines(Tail(lines))

\* pairs of data lines: different words, words equal up to case, the same
\* word twice
SessionLinePairs ==
    {<<LineSyn, LineNoSyn>>, <<LineSyn, LineCase>>, <<LineNoSyn, LineCase>>,
     <<LineSyn, LineSyn>>}

SessionTexts ==
    {JoinLines(<<HeaderLine, l>>) : l \in SessionLines}
    \cup {JoinLines(<<HeaderLine, p[1], p[2]>>) : p \in SessionLinePairs}

\* the CSV text of an earlier upload
UploadedText == JoinLines(<<HeaderLine, LineNoSyn, LineSyn>>)

FetchOutcomes == {[ok |-> FALSE]} \cup {[ok |-> TRUE, text |-> t] : t \in SessionTexts}

Guest == <<"G", "u", "e", "s", "t">>

UserU == <<"u">>

\* counters left by earlier sessions
EarlierProgress ==
    Put(EmptyObject, UserU,
        Put(EmptyObject, <<"a">>, [attempts |-> 2, correct |-> 1]))

----------------------------------------------------------------------------
(* The flashcards page *)

SessionLimit == 10

Min(a, b) == IF a < b THEN a ELSE b

\* { entry, options, correct: entry.synonyms[0] || entry.word }
CardCorrect(entry) ==
    IF Len(entry.synonyms) > 0 /\ entry.synonyms[1] # <<>> THEN entry.synonyms[1]
    ELSE entry.word

\* the cards one entry can be wrapped in
CardsOf(entry, words) ==
    {[entry |-> entry, options |-> o, correct |-> CardCorrect(entry)]
        : o \in generateOptions(entry, words)}

RECURSIVE BuildSession(_, _)
\* entries.slice(...).map((entry) => ...): the sessions the drawn entries give
BuildSession(drawn, words) ==
    IF drawn = <<>> THEN {<<>>}
    ELSE {<<c>> \o rest : c \in CardsOf(Head(drawn), words),
                          rest \in BuildSession(Tail(drawn), words)}

\* finishSession(): updateProgress(username, results), then the summary
finishSession(name, res) ==
    /\ localStorage' = updateProgress(localStorage, name, res)
    /\ phase' = "complete"

\* showCard() that takes the card at the back of the queue
showCard_TakeLast(q, name, res) ==
    IF q = <<>>
    THEN /\ finishSession(name, res)
         /\ queue' = q
         /\ UNCHANGED currentCard
    ELSE /\ currentCard' = q[Len(q)]
         /\ queue' = SubSeq(q, 1, Len(q) - 1)
         /\ phase' = "presented"
         /\ UNCHANGED localStorage

\* showCard() run with queue q
showCard(q, name, res) ==
    IF q = <<>>
    THEN /\ finishSession(name, res)
         /\ queue' = q
         /\ UNCHANGED currentCard
    ELSE /\ currentCard' = Head(q)
         /\ queue' = Tail(q)
         /\ phase' = "presented"
         /\ UNCHANGED localStorage

\* initFlashcards(), up to and including its first showCard()
InitFlashcards ==
    /\ phase = "loading"
    /\ \E fetched \in FetchOutcomes :
         LET stored == localStorage.username
             name == IF stored # Null /\ stored.val # <<>> THEN stored.val ELSE Guest
             words == loadWords(localStorage, fetched)
         IN  /\ username' = name
             /\ allWords' = words
             /\ IF words = <<>>
                THEN /\ phase' = "noWords"
                     /\ UNCHANGED <<sessionSize, queue, results, currentCard, localStorage>>
                ELSE \E entries \in shuffleArray(words) :
                     \E session \in BuildSession(
                            SubSeq(entries, 1, Min(SessionLimit, Len(entries))), words) :
                         /\ sessionSize' = Len(session)
                         /\ results' = <<>>
                         /\ showCard(session, name, <<>>)
    /\ UNCHANGED <<genVars, callVars, accVars, adminVars,
                   loadVars, parseVars, buildVars, tabVars>>

\* handleOptionClick that never requeues
HandleOptionClick_NoRequeue(k) ==
    /\ phase = "presented"
    /\ Len(results) < MaxAnswers
    /\ LET card == currentCard
           isCorrect == EqIgnoreCase(card.options[k], card.correct)
       IN  results' = Append(results, [word |-> card.entry.word, correct |-> isCorrect])
    /\ phase' = "answered"
    /\ UNCHANGED <<localStorage, username, allWords, sessionSize, currentCard, queue, genVars, callVars, accVars, adminVars,
                   loadVars, parseVars, buildVars, tabVars>>

\* handleOptionClick that finishes the session itself when the queue is empty
HandleOptionClick_FinishAtOnce(k) ==
    /\ phase = "presented"
    /\ Len(results) < MaxAnswers
    /\ LET card == currentCard
           isCorrect == EqIgnoreCase(card.options[k], card.correct)
           res == Append(results, [word |-> card.entry.word, correct |-> isCorrect])
       IN  /\ results' = res
           /\ IF isCorrect
              THEN /\ queue' = queue
                   /\ IF queue = <<>> THEN finishSession(username, res)
                      ELSE phase' = "answered" /\ UNCHANGED localStorage
              ELSE /\ \E o \in generateOptions(card.entry, allWords) :
                        queue' = Append(queue, [entry |-> card.entry, options |-> o,
                                                correct |-> card.correct])
                   /\ phase' = "answered"
                   /\ UNCHANGED localStorage
    /\ UNCHANGED <<username, allWords, sessionSize, currentCard, genVars, callVars, accVars, adminVars,
                   loadVars, parseVars, buildVars, tabVars>>

\* handleOptionClick that saves each result as soon as it is recorded
HandleOptionClick_SaveEach(k) ==
    /\ phase = "presented"
    /\ Len(results) < MaxAnswers
    /\ LET card == currentCard
           isCorrect == EqIgnoreCase(card.options[k], card.correct)
           res == [word |-> card.entry.word, correct |-> isCorrect]
       IN  /\ results' = Append(results, res)
           /\ localStorage' = updateProgress(localStorage, username, <<res>>)
           /\ IF isCorrect THEN queue' = queue
              ELSE \E o \in generateOptions(card.entry, allWords) :
                     queue' = Append(queue, [entry |-> card.entry, options |-> o,
                                             correct |-> card.correct])
    /\ phase' = "answered"
    /\ UNCHANGED <<username, allWords, sessionSize, currentCard, genVars, callVars, accVars, adminVars,
                   loadVars, parseVars, buildVars, tabVars>>

\* handleOptionClick that requeues the card whatever the answer
HandleOptionClick_RequeueAlways(k) ==
    /\ phase = "presented"
    /\ Len(results) < MaxAnswers
    /\ LET card == currentCard
           isCorrect == EqIgnoreCase(card.options[k], card.correct)
       IN  /\ results' = Append(results, [word |-> card.entry.word, correct |-> isCorrect])
           /\ \E o \in generateOptions(card.entry, allWords) :
                 queue' = Append(queue, [entry |-> card.entry, options |-> o,
                                         correct |-> card.correct])
    /\ phase' = "answered"
    /\ UNCHANGED <<localStorage, username, allWords, sessionSize, currentCard, genVars, callVars, accVars, adminVars,
                   loadVars, parseVars, buildVars, tabVars>>

\* handleOptionClick for a click on option k of the presented card; the
\* options stop taking clicks (pointerEvents = 'none') once one was clicked
HandleOptionClick(k) ==
    /\ phase = "presented"
    /\ Len(results) < MaxAnswers
    /\ LET card == currentCard
           isCorrect == EqIgnoreCase(card.options[k], card.correct)
       IN  /\ results' = Append(results, [word |-> card.entry.word, correct |-> isCorrect])
           /\ IF isCorrect THEN queue' = queue
              ELSE \E o \in generateOptions(card.entry, allWords) :
                     queue' = Append(queue, [entry |-> card.entry, options |-> o,
                                             correct |-> card.correct])
    /\ phase' = "answered"
    /\ UNCHANGED <<localStorage, username, allWords, sessionSize, currentCard, genVars, callVars, accVars, adminVars,
                   loadVars, parseVars, buildVars, tabVars>>

\* a nextBtn that is shown before the answer as well
NextClick_BeforeAnswer ==
    /\ phase \in {"presented", "answered"}
    /\ showCard(queue, username, results)
    /\ UNCHANGED <<username, allWords, sessionSize, results, genVars, callVars, accVars, adminVars,
                   loadVars, parseVars, buildVars, tabVars>>

\* click on nextBtn, shown only after an answer
NextClick ==
    /\ phase = "answered"
    /\ showCard(queue, username, results)
    /\ UNCHANGED <<username, allWords, sessionSize, results, genVars, callVars, accVars, adminVars,
                   loadVars, parseVars, buildVars, tabVars>>

\* the user navigates away or closes the page: the page's variables are gone
LeavePage ==
    /\ phase \in {"noWords", "presented", "answered", "complete"}
    /\ phase' = "closed"
    /\ username' = <<>>
    /\ allWords' = <<>>
    /\ sessionSize' = 0
    /\ queue' = <<>>
    /\ results' = <<>>
    /\ currentCard' = NoCard
    /\ UNCHANGED <<localStorage, genVars, callVars, accVars, adminVars,
                   loadVars, parseVars, buildVars, tabVars>>

Init ==
    /\ localStorage \in [username : {Null, PlainString(UserU)},
                         words : {Null, JSONstringify(parseCSV(UploadedText))},
                         progress : {Null, JSONstringify(EarlierProgress)}]
    /\ phase = "loading"
    /\ username = <<>>
    /\ allWords = <<>>
    /\ sessionSize = 0
    /\ queue = <<>>
    /\ results = <<>>
    /\ currentCard = NoCard
    /\ GenUnused
    /\ CallsUnused
    /\ AccUnused
    /\ AdminUnused
    /\ LoadUnused
    /\ ParseUnused
    /\ BuildUnused
    /\ TabsUnused

Next ==
    \/ InitFlashcards
    \/ \E k \in 1..4 : HandleOptionClick(k)
    \/ NextClick
    \/ LeavePage

Spec == Init /\ [][Next]_vars

----------------------------------------------------------------------------
(* Properties of the session *)

\* the cards that are or were in the queue and are still held by the page
CardsHeld ==
    {queue[i] : i \in 1..Len(queue)} \cup (IF currentCard = NoCard THEN {} ELSE {currentCard})

\* C2: every card placed in the queue has 4 options, exactly one of which
\* equals the card's own correct answer case-insensitively, the correct answer
\* being the first synonym, else the first token of the meaning, else the word
C2_CardHasItsAnswerOnce ==
    \A card \in CardsHeld :
        /\ Len(card.options) = 4
        /\ card.correct = CorrectOf(card.entry)
        /\ CountMatches(card.options, card.correct) = 1

WrongAnswers == {i \in 1..Len(results) : ~results[i].correct}

\* C3: in a complete session the number of results is the session size plus
\* the number of results recorded as incorrect
C3_ResultsAreSizePlusWrong ==
    phase = "complete" => Len(results) = sessionSize + Cardinality(WrongAnswers)

C3_Witness ==
    phase = "complete" /\ sessionSize = 2 /\ WrongAnswers # {}

\* a submission has been processed and the queue is empty
SubmissionLeftQueueEmpty == phase \in {"answered", "complete"} /\ queue = <<>>

\* C4 as claimed: as soon as a submission has been processed and the queue is
\* empty the session is Complete, with no further user event
C4_CompleteAtSubmission == SubmissionLeftQueueEmpty => phase = "complete"

AttemptsIn(res, w) == Cardinality({i \in 1..Len(res) : res[i].word = w})

CorrectIn(res, w) == Cardinality({i \in 1..Len(res) : res[i].word = w /\ res[i].correct})

\* the counters an item of localStorage holds, none when it is missing or
\* does not parse
CountersIn(item) == IF item.tag = "json" THEN item.val ELSE EmptyObject

\* base with, for user, one attempt added per result and one correct per
\* correct result
Accumulated(base, user, res) ==
    LET old == IF user \in DOMAIN base THEN base[user] ELSE EmptyObject
        ws == (DOMAIN old) \cup {res[i].word : i \in 1..Len(res)}
        mine == [w \in ws |->
                    LET o == IF w \in DOMAIN old THEN old[w]
                             ELSE [attempts |-> 0, correct |-> 0]
                    IN  [attempts |-> o.attempts + AttemptsIn(res, w),
                         correct |-> o.correct + CorrectIn(res, w)]]
    IN  [v \in (DOMAIN base) \cup {user} |-> IF v = user THEN mine ELSE base[v]]

\* C4 as amended: Complete is entered only by the Next click that follows the
\* submission which left the queue empty, and entering it persists the whole
\* results list, repeats included
C4_CompleteAtNextClick ==
    [][(phase # "complete" /\ phase' = "complete") =>
         /\ phase = "answered"
         /\ queue = <<>>
         /\ results' = results
         /\ localStorage'.progress =
               JSONstringify(Accumulated(CountersIn(localStorage.progress), username, results))
      ]_vars

C4_Witness ==
    phase = "complete" /\ Len(results) > sessionSize /\ localStorage.progress # Null

\* C5: only the step that enters Complete changes localStorage; every other
\* step, leaving the page included, keeps it, and Complete is entered at most
\* once per session
C5_InterruptedSessionRecordsNothing ==
    [][/\ (phase' # "complete" \/ phase = "complete") => localStorage' = localStorage
       /\ phase = "complete" => phase' \in {"complete", "closed"}
       /\ phase = "closed" => phase' = "closed"
      ]_vars

C5_Witness ==
    phase = "answered" /\ Len(results) >= 2 /\ WrongAnswers # {}
    /\ localStorage.progress = Null

----------------------------------------------------------------------------
(* updateProgress called on its own *)

UserV == <<"v">>

\* usernames passed to updateProgress; the empty one makes it return at once
CallUsers == {<<>>, UserU, UserV}

ResultChoices == [word : {<<"a">>, <<"b">>}, correct : BOOLEAN]

ResultSeqs == UNION {[1..n -> ResultChoices] : n \in 0..MaxResults}

CallResultSeqs == UNION {[1..n -> ResultChoices] : n \in 0..MaxCallResults}

\* counters of two students left by earlier sessions
EarlierProgressOfTwo ==
    Put(Put(EmptyObject, UserU,
            Put(Put(EmptyObject, <<"a">>, [attempts |-> 1, correct |-> 1]),
                <<"b">>, [attempts |-> 3, correct |-> 0])),
        UserV, Put(EmptyObject, <<"a">>, [attempts |-> 1, correct |-> 0]))

\* values of the 'progress' key before the calls
ProgressItems ==
    {Null, Corrupt, NullText, JSONstringify(EarlierProgress),
     JSONstringify(EarlierProgressOfTwo)}

ProgInit ==
    /\ localStorage \in [username : {Null}, words : {Null}, progress : ProgressItems]
    /\ lsStart = localStorage
    /\ lsConcat = EmptyStorage
    /\ callUser = <<>>
    /\ callResults = <<>>
    /\ callRaised = FALSE
    /\ calls = 0
    /\ rFirst = <<>>
    /\ rSecond = <<>>
    /\ GenUnused
    /\ PageUnloaded
    /\ AccUnused
    /\ AdminUnused
    /\ LoadUnused
    /\ ParseUnused
    /\ BuildUnused
    /\ TabsUnused

\* updateProgress(u, r)
UpdateProgressCall(u, r) ==
    /\ calls < MaxCalls
    /\ calls' = calls + 1
    /\ callUser' = u
    /\ callResults' = r
    /\ callRaised' = updateProgressThrows(localStorage, u)
    /\ localStorage' = IF updateProgressThrows(localStorage, u) THEN localStorage
                       ELSE updateProgress(localStorage, u, r)
    /\ UNCHANGED <<rFirst, rSecond, lsStart, lsConcat, genVars, pageVars, accVars, adminVars,
                   loadVars, parseVars, buildVars, tabVars>>

ProgNext == \E u \in CallUsers, r \in CallResultSeqs : UpdateProgressCall(u, r)

SpecProg == ProgInit /\ [][ProgNext]_vars

----------------------------------------------------------------------------
(* Two calls compared with one call on the concatenated results *)

AssocInit ==
    /\ localStorage \in [username : {Null}, words : {Null},
                         progress : ProgressItems \ {NullText}]
    /\ lsStart = localStorage
    /\ lsConcat = localStorage
    /\ callUser \in CallUsers
    /\ rFirst \in ResultSeqs
    /\ rSecond \in ResultSeqs
    /\ callResults = <<>>
    /\ callRaised = FALSE
    /\ calls = 0
    /\ GenUnused
    /\ PageUnloaded
    /\ AccUnused
    /\ AdminUnused
    /\ LoadUnused
    /\ ParseUnused
    /\ BuildUnused
    /\ TabsUnused

\* updateProgress(u, r1)
CallFirst ==
    /\ calls = 0
    /\ calls' = 1
    /\ localStorage' = updateProgress(localStorage, callUser, rFirst)
    /\ UNCHANGED <<callUser, callResults, callRaised, rFirst, rSecond, lsStart, lsConcat,
                   genVars, pageVars, accVars, adminVars,
                   loadVars, parseVars, buildVars, tabVars>>

\* updateProgress(u, r2)
CallSecond ==
    /\ calls = 1
    /\ calls' = 2
    /\ localStorage' = updateProgress(localStorage, callUser, rSecond)
    /\ UNCHANGED <<callUser, callResults, callRaised, rFirst, rSecond, lsStart, lsConcat,
                   genVars, pageVars, accVars, adminVars,
                   loadVars, parseVars, buildVars, tabVars>>

\* updateProgress(u, r1.concat(r2)) from the same start
CallConcat ==
    /\ callResults = <<>>
    /\ lsConcat = lsStart
    /\ rFirst \o rSecond # <<>>
    /\ callResults' = rFirst \o rSecond
    /\ lsConcat' = updateProgress(lsConcat, callUser, rFirst \o rSecond)
    /\ UNCHANGED <<callUser, callRaised, calls, rFirst, rSecond, lsStart, localStorage,
                   genVars, pageVars, accVars, adminVars,
                   loadVars, parseVars, buildVars, tabVars>>

AssocNext == CallFirst \/ CallSecond \/ CallConcat

SpecAssoc == AssocInit /\ [][AssocNext]_vars

\* both runs are over
BothRunsDone == calls = 2 /\ callResults = rFirst \o rSecond /\ callResults # <<>>

\* C6: updateProgress(u, r1) then updateProgress(u, r2) leaves the same
\* persisted counters as updateProgress(u, r1 ++ r2)
C6_TwoCallsAsOne == BothRunsDone => localStorage.progress = lsConcat.progress

C6_Witness ==
    /\ BothRunsDone
    /\ lsStart.progress = JSONstringify(EarlierProgressOfTwo)
    /\ callUser = UserU
    /\ rFirst # <<>>
    /\ rSecond # <<>>
    /\ \E i \in 1..Len(rFirst), j \in 1..Len(rSecond) : rFirst[i].word = rSecond[j].word
    /\ lsConcat.progress # lsStart.progress

----------------------------------------------------------------------------
(* Properties of updateProgress *)

\* every counter is a pair of integers with 0 <= correct <= attempts
WellFormed(counters) ==
    \A v \in DOMAIN counters : \A w \in DOMAIN counters[v] :
        /\ counters[v][w].correct \in Nat
        /\ counters[v][w].attempts \in Nat
        /\ counters[v][w].correct <= counters[v][w].attempts

\* no user/word pair of old is missing in new or has a smaller counter there
NeverLess(old, new) ==
    \A v \in DOMAIN old :
        /\ v \in DOMAIN new
        /\ \A w \in DOMAIN old[v] :
              /\ w \in DOMAIN new[v]
              /\ new[v][w].attempts >= old[v][w].attempts
              /\ new[v][w].correct >= old[v][w].correct

AbsentOrWellFormed(item) ==
    item = Null \/ (item.tag = "json" /\ WellFormed(item.val))

\* C7: from an absent or well-formed store every call leaves a store that is
\* absent or well-formed, with every earlier user/word pair still there and
\* no counter smaller than before
C7_CountersOnlyGrow ==
    [][AbsentOrWellFormed(localStorage.progress) =>
         /\ AbsentOrWellFormed(localStorage'.progress)
         /\ NeverLess(CountersIn(localStorage.progress), CountersIn(localStorage'.progress))
      ]_vars

C7_Witness ==
    /\ calls = 2
    /\ lsStart.progress = JSONstringify(EarlierProgressOfTwo)
    /\ localStorage.progress.tag = "json"
    /\ UserU \in DOMAIN localStorage.progress.val
    /\ <<"b">> \in DOMAIN localStorage.progress.val[UserU]
    /\ localStorage.progress.val[UserU][<<"b">>] = [attempts |-> 5, correct |-> 2]

\* C8: on a missing or unparsable 'progress' item a call with a non-empty
\* username does not throw and stores exactly the counts of its results for
\* that user
C8_CorruptIsEmpty ==
    [][(/\ localStorage.progress \in {Null, Corrupt}
        /\ calls' = calls + 1
        /\ callUser' # <<>>) =>
         /\ ~callRaised'
         /\ localStorage'.progress =
               JSONstringify(Accumulated(EmptyObject, callUser', callResults'))
      ]_vars

C8_Witness ==
    /\ lsStart.progress = Corrupt
    /\ calls = 1
    /\ callUser = UserU
    /\ callResults # <<>>
    /\ ~callRaised
    /\ localStorage.progress # Corrupt

----------------------------------------------------------------------------
(* Numbers.  A JavaScript Number is an IEEE 754 double; a positive one is  *)
(* [m, e]: 53 bits m, most significant first, m[1] = 1, of value m * 2^e.  *)
(* Quotients and products are rounded to 53 bits, ties to even.            *)

MantissaBits == 53

\* arithmetic on more than 31 bits is done on limbs of LimbBits bits, most
\* significant limb first
LimbBits == 9

LimbBase == 512

PowersOfTwo == <<1, 2, 4, 8, 16, 32, 64, 128, 256>>

\* the bits of limbs, most significant first
BitsOfLimbs(limbs) ==
    [i \in 1..(LimbBits * Len(limbs)) |->
        (limbs[((i - 1) \div LimbBits) + 1]
            \div PowersOfTwo[LimbBits - ((i - 1) % LimbBits)]) % 2]

RECURSIVE BitsNat(_)
\* the natural number of a few bits
BitsNat(bits) ==
    IF bits = <<>> THEN 0 ELSE 2 * BitsNat(SubSeq(bits, 1, Len(bits) - 1)) + bits[Len(bits)]

\* the limbs of bits, Len(bits) a multiple of LimbBits
LimbsOfBits(bits) ==
    [j \in 1..(Len(bits) \div LimbBits) |->
        BitsNat(SubSeq(bits, (j - 1) * LimbBits + 1, j * LimbBits))]

RECURSIVE LeadingZeros(_, _)
\* number of 0 bits that start the binary expansion of r / d, 0 < r < d
LeadingZeros(r, d) == IF 2 * r >= d THEN 0 ELSE 1 + LeadingZeros(2 * r, d)

RECURSIVE RemainderAfter(_, _, _)
\* what is left of r / d after n bits of its binary expansion
RemainderAfter(r, d, n) == IF n = 0 THEN r ELSE RemainderAfter((2 * r) % d, d, n - 1)

RECURSIVE QuotientLimbs(_, _, _)
\* the first n limbs of the binary expansion of r / d, 0 <= r < d
QuotientLimbs(r, d, n) ==
    IF n = 0 THEN <<>>
    ELSE <<(r * LimbBase) \div d>> \o QuotientLimbs((r * LimbBase) % d, d, n - 1)

RECURSIVE RemainderAfterLimbs(_, _, _)
RemainderAfterLimbs(r, d, n) ==
    IF n = 0 THEN r ELSE RemainderAfterLimbs((r * LimbBase) % d, d, n - 1)

\* bits + 1, one bit longer when every bit is 1
Increment(bits) ==
    LET zeros == {i \in 1..Len(bits) : bits[i] = 0}
    IN  IF zeros = {} THEN <<1>> \o [i \in 1..Len(bits) |-> 0]
        ELSE LET j == CHOOSE i \in zeros : \A k \in zeros : k <= i
             IN  [i \in 1..Len(bits) |-> IF i < j THEN bits[i] ELSE IF i = j THEN 1 ELSE 0]

\* the double nearest to kept * 2^e + (guard and sticky below it), ties to even
RoundToDouble(kept, guard, sticky, e) ==
    LET up == guard = 1 /\ (sticky \/ kept[Len(kept)] = 1)
        m == IF up THEN Increment(kept) ELSE kept
    IN  IF Len(m) > MantissaBits
        THEN [m |-> SubSeq(m, 1, MantissaBits), e |-> e + 1]
        ELSE [m |-> m, e |-> e]

\* correct / attempts for integers 0 < c <= a: the expansion of c / 2a is
\* read from its first 1 bit, 53 bits and a guard bit
Divide(c, a) ==
    LET d == 2 * a
        z == LeadingZeros(c, d)
        r == RemainderAfter(c, d, z)
        n == (MantissaBits + 1) \div LimbBits
        bits == BitsOfLimbs(QuotientLimbs(r, d, n))
        rest == RemainderAfterLimbs(r, d, n)
    IN  RoundToDouble(SubSeq(bits, 1, MantissaBits), bits[MantissaBits + 1], rest # 0,
                      1 - (z + MantissaBits))

RECURSIVE NatLimbs(_)
\* the limbs of a natural number, none for 0
NatLimbs(n) == IF n = 0 THEN <<>> ELSE NatLimbs(n \div LimbBase) \o <<n % LimbBase>>

RECURSIVE TimesLimbs(_, _, _)
\* the limbs of limbs * k + carry, k a small natural number
TimesLimbs(limbs, k, carry) ==
    IF limbs = <<>> THEN NatLimbs(carry)
    ELSE LET t == limbs[Len(limbs)] * k + carry
         IN  TimesLimbs(SubSeq(limbs, 1, Len(limbs) - 1), k, t \div LimbBase)
                \o <<t % LimbBase>>

\* bits without the 0 bits it starts with
StripZeros(bits) ==
    LET ones == {i \in 1..Len(bits) : bits[i] = 1}
    IN  IF ones = {} THEN <<>>
        ELSE SubSeq(bits, CHOOSE i \in ones : \A k \in ones : i <= k, Len(bits))

\* x * k for a double x and a small natural number k
Times(x, k) ==
    LET p == StripZeros(BitsOfLimbs(TimesLimbs(LimbsOfBits(<<0>> \o x.m), k, 0)))
        drop == Len(p) - MantissaBits
    IN  IF drop <= 0 THEN [m |-> p \o [i \in 1..(0 - drop) |-> 0], e |-> x.e + drop]
        ELSE RoundToDouble(SubSeq(p, 1, MantissaBits), p[MantissaBits + 1],
                           \E i \in (MantissaBits + 2)..Len(p) : p[i] = 1,
                           x.e + drop)

\* Math.round(x) for a double 0 < x < 2^53: the integer nearest to x, the
\* larger one when two are equally near
MathRound(x) ==
    LET n == MantissaBits + x.e
    IN  IF n < 0 THEN 0
        ELSE IF n >= MantissaBits THEN BitsNat(x.m)
        ELSE BitsNat(SubSeq(x.m, 1, n)) + x.m[n + 1]

\* attempts ? Math.round((correct / attempts) * 100) : 0
Accuracy(correct, attempts) ==
    IF attempts = 0 THEN 0
    ELSE IF correct = 0 THEN 0
    ELSE MathRound(Times(Divide(correct, attempts), 100))

----------------------------------------------------------------------------
(* The accuracy shown for totals 0 <= correct <= attempts *)

AccInit ==
    /\ accAttempts \in 0..MaxAttempts
    /\ accCorrect \in 0..accAttempts
    /\ accuracy = 0
    /\ accPc = "render"
    /\ localStorage = EmptyStorage
    /\ GenUnused
    /\ PageUnloaded
    /\ CallsUnused
    /\ AdminUnused
    /\ LoadUnused
    /\ ParseUnused
    /\ BuildUnused
    /\ TabsUnused

\* const accuracy = totalAttempts ? Math.round(...) : 0
RenderAccuracy ==
    /\ accPc = "render"
    /\ accuracy' = Accuracy(accCorrect, accAttempts)
    /\ accPc' = "done"
    /\ UNCHANGED <<accAttempts, accCorrect, localStorage, genVars, pageVars, callVars, adminVars,
                   loadVars, parseVars, buildVars, tabVars>>

AccNext == RenderAccuracy

SpecAcc == AccInit /\ [][AccNext]_vars

\* round(100 * c / a): the integer nearest to the exact quotient, the larger
\* one when two are equally near
RoundedPercent(c, a) == (200 * c + a) \div (2 * a)

\* C9: the accuracy shown is round(100 * correct / attempts) when
\* attempts > 0 and 0 when attempts = 0, lies in 0..100, and is 70 for
\* attempts = 10, correct = 7
C9_AccuracyIsRoundedPercent ==
    accPc = "done" =>
        /\ accuracy \in 0..100
        /\ accAttempts = 0 => accuracy = 0
        /\ accAttempts > 0 => accuracy = RoundedPercent(accCorrect, accAttempts)
        /\ (accAttempts = 10 /\ accCorrect = 7) => accuracy = 70

----------------------------------------------------------------------------
(* The admin page: login and CSV upload *)

\* const ADMIN_PASSWORD = 'admin123', and some other input
AdminPassword == <<"a", "d", "m", "i", "n", "1", "2", "3">>

PasswordInputs == {AdminPassword, <<>>, <<"a">>}

\* a,"c,d",x;X,,e   five fields, the second quoted with a comma in it
LineQuoted ==
    <<"a", ",", "\"", "c", ",", "d", "\"", ",", "x", ";", "X", ",", ",", "e">>

\* a,m,x        three fields
LineShort == <<"a", ",", "m", ",", "x">>

\* contents of the files uploaded: no text at all, a header only, a data
\* line only, a header with one or two data lines, with a blank line between,
\* with a line of three fields only, with a quoted field
UploadTexts ==
    {<<>>,
     HeaderLine,
     LineSyn,
     JoinLines(<<HeaderLine, LineNoSyn>>),
     JoinLines(<<HeaderLine, LineSyn, LineCase>>),
     JoinLines(<<HeaderLine, LineSyn, <<>>, LineCase>>),
     JoinLines(<<HeaderLine, LineShort>>),
     JoinLines(<<HeaderLine, LineShort, LineNoSyn>>),
     JoinLines(<<HeaderLine, LineQuoted>>)}

AdminInit ==
    /\ localStorage \in [username : {Null, PlainString(UserU)},
                         words : {Null, JSONstringify(parseCSV(UploadedText))},
                         progress : {Null, JSONstringify(EarlierProgress)}]
    /\ adminVisible = FALSE
    /\ pendingReads = <<>>
    /\ lastRead = <<>>
    /\ uploads = 0
    /\ GenUnused
    /\ PageUnloaded
    /\ CallsUnused
    /\ AccUnused
    /\ LoadUnused
    /\ ParseUnused
    /\ BuildUnused
    /\ TabsUnused

\* click on loginBtn with passwordInput.value = input
LoginClick(input) ==
    /\ ~adminVisible
    /\ adminVisible' = (input = AdminPassword)
    /\ UNCHANGED <<localStorage, pendingReads, lastRead, uploads,
                   genVars, pageVars, callVars, accVars,
                   loadVars, parseVars, buildVars, tabVars>>

\* click on uploadBtn with no file selected: the alert only
UploadClickNoFile ==
    /\ adminVisible
    /\ uploads < MaxUploads
    /\ uploads' = uploads + 1
    /\ UNCHANGED <<localStorage, adminVisible, pendingReads, lastRead,
                   genVars, pageVars, callVars, accVars,
                   loadVars, parseVars, buildVars, tabVars>>

\* click on uploadBtn with a file of content text: reader.readAsText(file)
UploadClick(text) ==
    /\ adminVisible
    /\ uploads < MaxUploads
    /\ uploads' = uploads + 1
    /\ pendingReads' = Append(pendingReads, text)
    /\ UNCHANGED <<localStorage, adminVisible, lastRead,
                   genVars, pageVars, callVars, accVars,
                   loadVars, parseVars, buildVars, tabVars>>

\* reader.onload with an empty-entries test that a save follows anyway
ReaderOnload_NoCheck(i) ==
    /\ i \in 1..Len(pendingReads)
    /\ lastRead' = pendingReads[i]
    /\ pendingReads' = SubSeq(pendingReads, 1, i - 1)
                          \o SubSeq(pendingReads, i + 1, Len(pendingReads))
    /\ localStorage' = [localStorage EXCEPT
                           !.words = JSONstringify(parseCSV(pendingReads[i]))]
    /\ UNCHANGED <<adminVisible, uploads, genVars, pageVars, callVars, accVars,
                   loadVars, parseVars, buildVars, tabVars>>

\* reader.onload of the i-th pending reader
ReaderOnload(i) ==
    /\ i \in 1..Len(pendingReads)
    /\ lastRead' = pendingReads[i]
    /\ pendingReads' = SubSeq(pendingReads, 1, i - 1)
                          \o SubSeq(pendingReads, i + 1, Len(pendingReads))
    /\ LET entries == parseCSV(pendingReads[i])
       IN  IF Len(entries) = 0 THEN UNCHANGED localStorage
           ELSE localStorage' = [localStorage EXCEPT !.words = JSONstringify(entries)]
    /\ UNCHANGED <<adminVisible, uploads, genVars, pageVars, callVars, accVars,
                   loadVars, parseVars, buildVars, tabVars>>

AdminNext ==
    \/ \E input \in PasswordInputs : LoginClick(input)
    \/ UploadClickNoFile
    \/ \E text \in UploadTexts : UploadClick(text)
    \/ \E i \in 1..MaxUploads : ReaderOnload(i)

SpecAdmin == AdminInit /\ [][AdminNext]_vars

\* C10: an upload that parses to no entry leaves 'words' as it was, one that
\* parses to at least one entry makes 'words' exactly the parsed entries, and
\* neither changes 'progress' or 'username'
C10_UploadReplacesOrRejects ==
    [][Len(pendingReads') < Len(pendingReads) =>
         /\ parseCSV(lastRead') = <<>> => localStorage'.words = localStorage.words
         /\ parseCSV(lastRead') # <<>> =>
               localStorage'.words = JSONstringify(parseCSV(lastRead'))
         /\ localStorage'.progress = localStorage.progress
         /\ localStorage'.username = localStorage.username
      ]_vars

\* a rejected upload came after an accepted one, whose entries are still there
C10_Witness ==
    /\ uploads = 2
    /\ pendingReads = <<>>
    /\ lastRead = JoinLines(<<HeaderLine, LineShort>>)
    /\ localStorage.words = JSONstringify(parseCSV(JoinLines(<<HeaderLine, LineNoSyn>>)))
    /\ localStorage.progress # Null

----------------------------------------------------------------------------
(* loadWords step by step, and what initFlashcards does with its result *)

\* values of the 'words' key: missing, the empty string, unparsable text, the
\* text "null", the text "[]", an uploaded pool
WordsItems ==
    {Null, PlainString(<<>>), Corrupt, NullText, JSONstringify(<<>>),
     JSONstringify(parseCSV(UploadedText))}

\* the value null, and an array
NullValue == [isNull |-> TRUE, val |-> <<>>]

ArrayValue(arr) == [isNull |-> FALSE, val |-> arr]

\* if (custom): null and the empty string are falsy
Truthy(item) == item # Null /\ item # PlainString(<<>>)

LoadInit ==
    /\ localStorage \in [username : {Null, PlainString(UserU)},
                         words : WordsItems,
                         progress : {Null}]
    /\ loadPc = "call"
    /\ fetchCalls = 0
    /\ fetchOutcome = Null
    /\ loaded = ArrayValue(<<>>)
    /\ phase = "loading"
    /\ username = <<>>
    /\ allWords = <<>>
    /\ sessionSize = 0
    /\ queue = <<>>
    /\ results = <<>>
    /\ currentCard = NoCard
    /\ GenUnused
    /\ CallsUnused
    /\ AccUnused
    /\ AdminUnused
    /\ ParseUnused
    /\ BuildUnused
    /\ TabsUnused

\* initFlashcards up to its await, and loadWords up to its return or its
\* first await
LoadWordsCall ==
    /\ loadPc = "call"
    /\ LET stored == localStorage.username
       IN  username' = IF stored # Null /\ stored.val # <<>> THEN stored.val ELSE Guest
    /\ LET custom == localStorage.words
       IN  IF Truthy(custom) /\ JSONparses(custom)
           THEN /\ loaded' = IF JSONparse(custom) = Null THEN NullValue
                             ELSE ArrayValue(JSONparse(custom))
                /\ loadPc' = "returned"
                /\ UNCHANGED fetchCalls
           ELSE /\ fetchCalls' = fetchCalls + 1
                /\ loadPc' = "fetching"
                /\ UNCHANGED loaded
    /\ UNCHANGED <<fetchOutcome, localStorage, phase, allWords, sessionSize, queue, results,
                   currentCard, genVars, callVars, accVars, adminVars,
                   parseVars, buildVars, tabVars>>

\* the rest of loadWords without the catch of lines 122-125
FetchSettles_NoCatch(outcome) ==
    /\ loadPc = "fetching"
    /\ fetchOutcome' = outcome
    /\ IF outcome.ok
       THEN loaded' = ArrayValue(parseCSV(outcome.text)) /\ loadPc' = "returned"
       ELSE UNCHANGED loaded /\ loadPc' = "threw"
    /\ UNCHANGED <<fetchCalls, localStorage, pageVars, genVars, callVars, accVars, adminVars,
                   parseVars, buildVars, tabVars>>

\* the rest of loadWords once fetch and response.text() have settled
FetchSettles(outcome) ==
    /\ loadPc = "fetching"
    /\ fetchOutcome' = outcome
    /\ loaded' = ArrayValue(IF outcome.ok THEN parseCSV(outcome.text) ELSE <<>>)
    /\ loadPc' = "returned"
    /\ UNCHANGED <<fetchCalls, localStorage, pageVars, genVars, callVars, accVars, adminVars,
                   parseVars, buildVars, tabVars>>

\* initFlashcards after the await: if (!allWords || allWords.length === 0)
StartAfterLoad ==
    /\ loadPc = "returned"
    /\ loadPc' = "started"
    /\ allWords' = loaded.val
    /\ phase' = IF loaded.isNull \/ Len(loaded.val) = 0 THEN "noWords" ELSE "building"
    /\ UNCHANGED <<fetchCalls, fetchOutcome, loaded, localStorage, username, sessionSize,
                   queue, results, currentCard, genVars, callVars, accVars, adminVars,
                   parseVars, buildVars, tabVars>>

LoadNext ==
    \/ LoadWordsCall
    \/ \E outcome \in FetchOutcomes : FetchSettles(outcome)
    \/ StartAfterLoad

SpecLoad == LoadInit /\ [][LoadNext]_vars

\* the 'words' key is present and its text deserializes
StoredPoolUsable ==
    localStorage.words # Null /\ localStorage.words.tag \in {"json", "jsonnull"}

\* C11: a present 'words' item that deserializes is what loadWords returns,
\* with no fetch at all, also when it is the empty pool; otherwise the default
\* CSV is fetched once and its parse is returned, or the empty pool when the
\* fetch fails; loadWords never throws and an empty pool ends in the "no
\* words" state
C11_LoadWordsSource ==
    /\ loadPc # "threw"
    /\ loadPc \in {"returned", "started"} =>
          /\ StoredPoolUsable =>
                /\ fetchCalls = 0
                /\ loaded = (IF localStorage.words = NullText THEN NullValue
                             ELSE ArrayValue(localStorage.words.val))
          /\ ~StoredPoolUsable =>
                /\ fetchCalls = 1
                /\ fetchOutcome.ok => loaded = ArrayValue(parseCSV(fetchOutcome.text))
                /\ ~fetchOutcome.ok => loaded = ArrayValue(<<>>)
    /\ loadPc = "started" =>
          phase = (IF loaded \in {NullValue, ArrayValue(<<>>)} THEN "noWords" ELSE "building")

\* the stored pool is empty: it was returned, nothing was fetched
C11_Witness ==
    /\ loadPc = "started"
    /\ localStorage.words = JSONstringify(<<>>)
    /\ fetchCalls = 0
    /\ phase = "noWords"

----------------------------------------------------------------------------
(* parseCSV step by step on texts of a first line and some data lines *)

\* cap on the number of lines after the first
MaxDataLines == 2

\* "a,b",m,x,,   five fields, the first quoted with a comma in it
LineQuotedFirst ==
    <<"\"", "a", ",", "b", "\"", ",", "m", ",", "x", ",", ",">>

\* a header, a blank line, or a data row in the place of the header
FirstLines == {HeaderLine, <<>>, LineSyn}

DataLines == {LineSyn, LineNoSyn, LineShort, LineQuoted, LineQuotedFirst, <<>>}

\* the same text with "\r\n" for every "\n"
RECURSIVE WithCRLF(_)
WithCRLF(text) ==
    IF text = <<>> THEN <<>>
    ELSE (IF Head(text) = "\n" THEN <<"\r", "\n">> ELSE <<Head(text)>>) \o WithCRLF(Tail(text))

CsvTexts ==
    LET unix == {JoinLines(<<f>> \o ls) :
                    f \in FirstLines,
                    ls \in UNION {[1..n -> DataLines] : n \in 0..MaxDataLines}}
    IN  unix \cup {WithCRLF(JoinLines(<<HeaderLine, LineSyn, <<>>, LineNoSyn>>))}

ParseInit ==
    /\ csvText \in CsvTexts
    /\ csvLines = <<>>
    /\ csvLine = <<>>
    /\ csvParts = <<>>
    /\ csvWords = <<>>
    /\ csvPc = "call"
    /\ localStorage = EmptyStorage
    /\ GenUnused
    /\ PageUnloaded
    /\ CallsUnused
    /\ AccUnused
    /\ AdminUnused
    /\ LoadUnused
    /\ BuildUnused
    /\ TabsUnused

\* const lines = text.trim().split(/\r?\n/); lines.shift(); const words = []
ParseCsvCall ==
    /\ csvPc = "call"
    /\ csvLines' = Tail(SplitLines(Trim(csvText)))
    /\ csvWords' = <<>>
    /\ csvPc' = "loop"
    /\ UNCHANGED <<csvText, csvLine, csvParts, localStorage, genVars, pageVars, callVars,
                   accVars, adminVars, loadVars, buildVars, tabVars>>

\* one iteration of for (const line of lines)
ParseCsvLine ==
    /\ csvPc = "loop"
    /\ csvLines # <<>>
    /\ LET line == Head(csvLines)
           parts == SplitFields(line)
       IN  /\ csvLine' = line
           /\ csvParts' = IF line = <<>> THEN <<>> ELSE parts
           /\ csvWords' = IF line = <<>> \/ Len(parts) < 5 THEN csvWords
                          ELSE Append(csvWords, ParseLine(parts))
    /\ csvLines' = Tail(csvLines)
    /\ UNCHANGED <<csvText, csvPc, localStorage, genVars, pageVars, callVars,
                   accVars, adminVars, loadVars, buildVars, tabVars>>

\* return words
ParseCsvReturn ==
    /\ csvPc = "loop"
    /\ csvLines = <<>>
    /\ csvPc' = "done"
    /\ UNCHANGED <<csvText, csvLines, csvLine, csvParts, csvWords, localStorage, genVars,
                   pageVars, callVars, accVars, adminVars, loadVars, buildVars, tabVars>>

ParseNext == ParseCsvCall \/ ParseCsvLine \/ ParseCsvReturn

SpecParse == ParseInit /\ [][ParseNext]_vars

\* the steps return what parseCSV returns
ParseStepsAgree == csvPc = "done" => csvWords = parseCSV(csvText)

\* position i of line lies inside a double-quoted section
InsideQuotes(line, i) ==
    Cardinality({j \in 1..(i - 1) : line[j] = "\""}) % 2 = 1

\* line cut at exactly the commas outside double-quoted sections
QuoteAwareFields(line) ==
    SplitAt(line, {i \in 1..Len(line) : line[i] = "," /\ ~InsideQuotes(line, i)}, 1, <<>>)

\* C12: every non-empty data line is split at exactly the commas outside its
\* double-quoted sections, and a line of 5 such fields gives an entry of
\* these fields
C12_SplitsAtCommasOutsideQuotes ==
    (csvPc = "loop" /\ csvLine # <<>>) =>
        /\ csvParts = QuoteAwareFields(csvLine)
        /\ Len(QuoteAwareFields(csvLine)) = 5 =>
              /\ csvWords # <<>>
              /\ csvWords[Len(csvWords)] = ParseLine(QuoteAwareFields(csvLine))

\* a line is blank when it holds white space only
Blank(line) == Trim(line) = <<>>

RECURSIVE EntriesOfRows(_)
\* one entry, in order, for each line that is not blank and has 5 fields or more
EntriesOfRows(lines) ==
    IF lines = <<>> THEN <<>>
    ELSE (IF ~Blank(Head(lines)) /\ Len(SplitFields(Head(lines))) >= 5
          THEN <<ParseLine(SplitFields(Head(lines)))>> ELSE <<>>)
         \o EntriesOfRows(Tail(lines))

\* C13: the first line of the input is dropped whatever it holds, and the
\* result has exactly one entry, in input order, for each later line that is
\* not blank and has at least 5 fields
C13_FirstLineDroppedRestKept ==
    csvPc = "done" => csvWords = EntriesOfRows(Tail(SplitLines(csvText)))

----------------------------------------------------------------------------
(* Building the session step by step: the copy of the pool, the shuffle    *)
(* loop, the cards, the queue.  entries holds references to the objects of *)
(* allWords; a reference is the object's position in allWords.             *)

\* how far the largest pool exceeds the session limit
MaxOverLimit == 1

\* the entry parseCSV makes of the row ",,,,"
BlankEntry == Entry(<<>>, <<>>, <<>>)

BlankPool(n) == [k \in 1..n |-> BlankEntry]

\* pools of one or two rows, and pools of blank rows around the session limit
BuildPools ==
    {parseCSV(t) : t \in SessionTexts}
    \cup {BlankPool(n) : n \in (SessionLimit - 1)..(SessionLimit + MaxOverLimit)}

\* values of Math.floor(Math.random() * (i + 1)) + 1 tried at position i: all
\* of them in the last steps of the loop, the first and the last one before
RandomIndexes(i) == IF i <= 4 THEN 1..i ELSE {1, i}

BuildInit ==
    /\ allWords \in BuildPools
    /\ phase = "building"
    /\ username = Guest
    /\ sessionSize = 0
    /\ queue = <<>>
    /\ results = <<>>
    /\ currentCard = NoCard
    /\ entryRefs = <<>>
    /\ shuffleI = 0
    /\ localStorage = EmptyStorage
    /\ GenUnused
    /\ CallsUnused
    /\ AccUnused
    /\ AdminUnused
    /\ LoadUnused
    /\ ParseUnused
    /\ TabsUnused

\* const entries = [...allWords]; and the start of shuffleArray(entries)
CopyEntries ==
    /\ phase = "building"
    /\ entryRefs' = [k \in 1..Len(allWords) |-> k]
    /\ shuffleI' = Len(allWords)
    /\ phase' = "shuffling"
    /\ UNCHANGED <<localStorage, username, allWords, sessionSize, queue, results, currentCard,
                   genVars, callVars, accVars, adminVars, loadVars, parseVars, tabVars>>

\* one iteration of the loop of shuffleArray(entries)
ShuffleStep(j) ==
    /\ phase = "shuffling"
    /\ shuffleI > 1
    /\ j \in RandomIndexes(shuffleI)
    /\ entryRefs' = Swap(entryRefs, shuffleI, j)
    /\ shuffleI' = shuffleI - 1
    /\ UNCHANGED <<localStorage, pageVars,
                   genVars, callVars, accVars, adminVars, loadVars, parseVars, tabVars>>

\* entries.slice(0, Math.min(10, entries.length)).map(...); queue = [...session];
\* results = []; currentCard = null
BuildQueue ==
    /\ phase = "shuffling"
    /\ shuffleI <= 1
    /\ LET size == Min(SessionLimit, Len(entryRefs))
           drawn == [k \in 1..size |-> allWords[entryRefs[k]]]
       IN  \E session \in BuildSession(drawn, allWords) :
               /\ queue' = session
               /\ sessionSize' = Len(session)
    /\ results' = <<>>
    /\ currentCard' = NoCard
    /\ phase' = "built"
    /\ UNCHANGED <<localStorage, username, allWords, buildVars,
                   genVars, callVars, accVars, adminVars, loadVars, parseVars, tabVars>>

\* the showCard() that starts the session
FirstShowCard ==
    /\ phase = "built"
    /\ showCard(queue, username, results)
    /\ UNCHANGED <<username, allWords, sessionSize, results, buildVars,
                   genVars, callVars, accVars, adminVars, loadVars, parseVars, tabVars>>

BuildNext ==
    \/ CopyEntries
    \/ \E j \in 1..(SessionLimit + MaxOverLimit) : ShuffleStep(j)
    \/ BuildQueue
    \/ FirstShowCard

SpecBuild == BuildInit /\ [][BuildNext]_vars

\* C14: the queue built from a non-empty pool has min(10, pool size) cards,
\* card k wraps the pool object the shuffle put at place k, no pool object is
\* wrapped twice, and the results list is empty
C14_QueueIsTheShuffledDraw ==
    phase = "built" =>
        /\ Len(queue) = Min(SessionLimit, Len(allWords))
        /\ sessionSize = Len(queue)
        /\ results = <<>>
        /\ \A k \in 1..Len(queue) :
              /\ entryRefs[k] \in 1..Len(allWords)
              /\ queue[k].entry = allWords[entryRefs[k]]
        /\ \A k1, k2 \in 1..Len(queue) : k1 # k2 => entryRefs[k1] # entryRefs[k2]

\* a pool of one more than the limit gave a queue of the limit, and the draw
\* left out an object other than the last
C14_Witness ==
    /\ phase = "built"
    /\ Len(allWords) = SessionLimit + 1
    /\ Len(queue) = SessionLimit
    /\ entryRefs[Len(entryRefs)] # Len(allWords)

----------------------------------------------------------------------------
(* Order of the queue and the answers of a session (specification Spec) *)

\* the step is one of the session: the page is not left
SessionStep == phase' # "closed"

\* C15: a correct answer leaves the queue as it is, a wrong answer appends a
\* card of the same entry behind every card queued at that moment, and the
\* card presented next is always the front of the queue
C15_RequeueAtBack ==
    [][SessionStep =>
         /\ (phase = "presented" /\ phase' = "answered") =>
               IF results'[Len(results')].correct
               THEN queue' = queue
               ELSE /\ Len(queue') = Len(queue) + 1
                    /\ SubSeq(queue', 1, Len(queue)) = queue
                    /\ queue'[Len(queue')].entry = currentCard.entry
                    /\ queue'[Len(queue')].correct = currentCard.correct
         /\ (phase = "answered" /\ phase' = "presented") =>
               /\ currentCard' = Head(queue)
               /\ queue' = Tail(queue)
      ]_vars

\* the first card was answered wrongly, the card of another word was shown
\* and answered next, and only then the first word's card is shown again
C15_Witness ==
    /\ phase = "presented"
    /\ Len(results) = 2
    /\ ~results[1].correct
    /\ results[2].word # results[1].word
    /\ currentCard.entry.word = results[1].word

\* C16: the results change only by the one result that the answer to the
\* presented card appends; once answered, the card takes no further answer;
\* and a card is dequeued, or the session completed, only after the answer
C16_OneAnswerPerPresentation ==
    [][SessionStep =>
         /\ results' # results =>
               /\ phase = "presented"
               /\ phase' = "answered"
               /\ currentCard' = currentCard
               /\ Len(results') = Len(results) + 1
               /\ SubSeq(results', 1, Len(results)) = results
               /\ results'[Len(results')].word = currentCard.entry.word
         /\ phase = "presented" => (phase' = "answered" /\ results' # results)
         /\ phase = "answered" =>
               /\ results' = results
               /\ phase' \in {"presented", "complete"}
               /\ Len(queue') <= Len(queue)
      ]_vars

\* two presentations were answered, the second one wrongly
C16_Witness ==
    /\ phase = "answered"
    /\ Len(results) = 2
    /\ ~results[2].correct
    /\ queue # <<>>

\* C19: every presented card has an option that the answer check accepts
C19_SomeOptionIsAccepted ==
    phase = "presented" =>
        \E k \in 1..Len(currentCard.options) :
            EqIgnoreCase(currentCard.options[k], currentCard.correct)

PoolWords == {allWords[i].word : i \in 1..Len(allWords)}

\* the positions of the results of word w
ResultsOf(w) == {i \in 1..Len(results) : results[i].word = w}

\* the pool is drawn whole and its words differ
DrawnWordsDistinct ==
    /\ Len(allWords) <= SessionLimit
    /\ Cardinality(PoolWords) = Len(allWords)

\* C20: the cards queued, the card waiting for its answer and the correct
\* results add up to the session size; in a complete session of distinct
\* words every drawn word has exactly one correct result, its last one, and
\* every result is of a drawn word
C20_CardsAndCorrectResultsConserved ==
    /\ Len(queue) + (IF phase = "presented" THEN 1 ELSE 0)
          + Cardinality({i \in 1..Len(results) : results[i].correct}) = sessionSize
    /\ (phase = "complete" /\ DrawnWordsDistinct) =>
          /\ \A w \in PoolWords :
                /\ CorrectIn(results, w) = 1
                /\ \A i \in ResultsOf(w) :
                      results[i].correct <=> (\A j \in ResultsOf(w) : j <= i)
          /\ \A i \in 1..Len(results) : results[i].word \in PoolWords

C20_Witness ==
    /\ phase = "complete"
    /\ DrawnWordsDistinct
    /\ sessionSize = 2
    /\ Len(results) = 3
    /\ ~results[1].correct

----------------------------------------------------------------------------
(* Duplicates among the options (specification SpecGen) *)

\* the synonyms of the other entries that may serve as distractors, in lower
\* case: not empty, not the correct answer, not a synonym of the entry
UsableCandidates(entry, allEntries) ==
    LET cands == CollectCandidates(entry, allEntries, 1)
    IN  {ToLowerCase(cands[k]) : k \in {i \in 1..Len(cands) :
                                          /\ cands[i] # <<>>
                                          /\ ~EqIgnoreCase(cands[i], CorrectOf(entry))
                                          /\ ~IsOwnSynonym(entry, cands[i])}}

\* C17: when the other entries' synonyms hold at least 3 usable candidates
\* that differ from each other case-insensitively, the 4 options returned
\* for an entry with a non-empty correct answer are non-empty and no two of
\* them are equal case-insensitively
C17_OptionsDifferIgnoringCase ==
    (/\ gPc = "done"
     /\ CorrectOf(gPool[gIdx]) # <<>>
     /\ Cardinality(UsableCandidates(gPool[gIdx], gPool)) >= 3) =>
        /\ Len(gOptions) = 4
        /\ \A k \in 1..4 : gOptions[k] # <<>>
        /\ \A k1, k2 \in 1..4 : k1 # k2 => ~EqIgnoreCase(gOptions[k1], gOptions[k2])

----------------------------------------------------------------------------
(* Two tabs of the same origin finishing their sessions: each runs         *)
(* updateProgress on its own thread, getItem and setItem are atomic, and   *)
(* nothing orders the getItem of one tab and the setItem of the other.     *)

Tabs == {1, 2}

\* finishSession passes the page's username, which is never empty
TabUsers == {UserU, UserV}

TabsInit ==
    /\ localStorage \in [username : {Null}, words : {Null},
                         progress : ProgressItems \ {NullText}]
    /\ lsStart = localStorage
    /\ lsConcat = EmptyStorage
    /\ callUser = <<>>
    /\ callResults = <<>>
    /\ callRaised = FALSE
    /\ calls = 0
    /\ rFirst = <<>>
    /\ rSecond = <<>>
    /\ tabUser \in [Tabs -> TabUsers]
    /\ tabResults \in [Tabs -> CallResultSeqs]
    /\ tabPc = [t \in Tabs |-> "read"]
    /\ tabRead = [t \in Tabs |-> Null]
    /\ tabLog = <<>>
    /\ GenUnused
    /\ PageUnloaded
    /\ AccUnused
    /\ AdminUnused
    /\ LoadUnused
    /\ ParseUnused
    /\ BuildUnused

\* updateProgress in tab t up to const existing = localStorage.getItem(key)
TabRead(t) ==
    /\ tabPc[t] = "read"
    /\ tabRead' = [tabRead EXCEPT ![t] = localStorage.progress]
    /\ tabPc' = [tabPc EXCEPT ![t] = "write"]
    /\ tabLog' = Append(tabLog, [tab |-> t, op |-> "read"])
    /\ UNCHANGED <<localStorage, tabUser, tabResults, genVars, pageVars, callVars, accVars,
                   adminVars, loadVars, parseVars, buildVars>>

\* the rest of updateProgress reading the store again before it writes
TabWrite_ReadAgain(t) ==
    /\ tabPc[t] = "write"
    /\ LET progress == EnsureUser(LoadProgress(localStorage.progress), tabUser[t])
       IN  localStorage' =
               [localStorage EXCEPT
                   !.progress = JSONstringify(RecordResults(progress, tabUser[t], tabResults[t]))]
    /\ tabPc' = [tabPc EXCEPT ![t] = "done"]
    /\ tabLog' = Append(tabLog, [tab |-> t, op |-> "write"])
    /\ UNCHANGED <<tabRead, tabUser, tabResults, genVars, pageVars, callVars, accVars,
                   adminVars, loadVars, parseVars, buildVars>>

\* the rest of updateProgress in tab t, ending with localStorage.setItem
TabWrite(t) ==
    /\ tabPc[t] = "write"
    /\ LET progress == EnsureUser(LoadProgress(tabRead[t]), tabUser[t])
       IN  localStorage' =
               [localStorage EXCEPT
                   !.progress = JSONstringify(RecordResults(progress, tabUser[t], tabResults[t]))]
    /\ tabPc' = [tabPc EXCEPT ![t] = "done"]
    /\ tabLog' = Append(tabLog, [tab |-> t, op |-> "write"])
    /\ UNCHANGED <<tabRead, tabUser, tabResults, genVars, pageVars, callVars, accVars,
                   adminVars, loadVars, parseVars, buildVars>>

TabsNext == \E t \in Tabs : TabRead(t) \/ TabWrite(t)

SpecTabs == TabsInit /\ [][TabsNext]_vars

BothTabsDone == \A t \in Tabs : tabPc[t] = "done"

\* both tabs read the item before either wrote it
ReadsBeforeWrites == tabLog[1].op = "read" /\ tabLog[2].op = "read"

LastWriter == tabLog[4].tab

FirstWriter == CHOOSE t \in Tabs : t # LastWriter

\* C18: when both tabs read before either writes, the store ends as the
\* start plus the increments of the last writer only; when one tab's read and
\* write come before the other's, it ends as the start plus the increments
\* of both
C18_LastWriteWins ==
    BothTabsDone =>
        LET start == CountersIn(lsStart.progress)
            onlyLast == Accumulated(start, tabUser[LastWriter], tabResults[LastWriter])
            both == Accumulated(
                        Accumulated(start, tabUser[FirstWriter], tabResults[FirstWriter]),
                        tabUser[LastWriter], tabResults[LastWriter])
        IN  /\ ReadsBeforeWrites => localStorage.progress = JSONstringify(onlyLast)
            /\ ~ReadsBeforeWrites => localStorage.progress = JSONstringify(both)

\* the reads came first and the result of the first writer for a word the
\* last writer did not answer is gone
C18_Witness ==
    /\ BothTabsDone
    /\ ReadsBeforeWrites
    /\ lsStart.progress = JSONstringify(EarlierProgressOfTwo)
    /\ tabUser[1] = UserU
    /\ tabUser[2] = UserU
    /\ tabResults[FirstWriter] = <<[word |-> <<"b">>, correct |-> TRUE]>>
    /\ tabResults[LastWriter] = <<[word |-> <<"a">>, correct |-> FALSE]>>
    /\ localStorage.progress.val[UserU][<<"b">>] = [attempts |-> 3, correct |-> 0]
    /\ localStorage.progress.val[UserU][<<"a">>] = [attempts |-> 2, correct |-> 1]

====
